---- MODULE Spec2Model ----
(***************************************************************************)
(* TaskWeaver: the task scheduling and execution engine (TaskManager), the *)
(* idle trigger (IdleDetector) and the orchestrator (TaskWeaver).          *)
(*                                                                         *)
(* The program runs on a single-threaded event loop: every action below is *)
(* one run-to-completion stretch of code between two awaits.  An           *)
(* executeTask call in flight is a record of the bag execs.  It holds a     *)
(* reference to the Task object it fetched from the map when it was        *)
(* called: as long as that object is the one the map holds under its id    *)
(* the call is `attached`; once addTask, removeTask or clearCompleted has   *)
(* taken the object out of the map only the calls holding it reach it, and *)
(* the call carries the object itself.                                     *)
(***************************************************************************)
EXTENDS Integers, Sequences, FiniteSets, Bags, TLC

VARIABLES
    cfg,              \* the configuration objects as passed to the constructors
    now,              \* the clock (Date.now()), in seconds
    tasks,            \* TaskManager.tasks: Map<string, Task>, in insertion order
    runningTasks,     \* TaskManager.runningTasks: Set<string>
    execs,            \* the executeTask calls in flight
    lastTriggerTime,  \* IdleDetector.lastTriggerTime (-1: null)
    isRunning,        \* TaskWeaver.isRunning
    intervalId,       \* TaskWeaver.intervalId (0: null)
    timers,           \* the interval timers installed and not cleared
    ops,              \* the calls of the client so far
    strategies,       \* TaskDecomposer.strategies, in registration order
    inserted,         \* the ids handed to addTask, in the order of their first
                      \* insertion (kept where the order of the store is studied)
    ret               \* what the step just taken returned, called and reported

vars == <<cfg, now, tasks, runningTasks, execs, lastTriggerTime,
          isRunning, intervalId, timers, ops, strategies, inserted, ret>>

----------------------------------------------------------------------------
(* Bounds of the model *)

MaxTime == 2
MaxExecs == 2
MaxOps == 4
MaxWords == 2
MaxStrategies == 4

----------------------------------------------------------------------------
(* Configuration *)

DefaultMaxConcurrent == 4
DefaultTimeoutSeconds == 300
DefaultMaxRetries == 2
DefaultIdleThresholdSeconds == 600
DefaultUserSilentThresholdSeconds == 600
DefaultCooldownSeconds == 1800

\* The configurations explored.  Every field is given as a number; a field
\* left out behaves as a 0 does, both being falsy for the constructors' `||`.
ManagerConfigs ==
    [maxConcurrent : {1}, maxRetries : {0, 1}, timeoutSeconds : {1},
     idleThresholdSeconds : {0}, userSilentThresholdSeconds : {0},
     cooldownSeconds : {2}]
WeaverConfigs ==
    [maxConcurrent : {1}, maxRetries : {1}, timeoutSeconds : {1},
     idleThresholdSeconds : {0}, userSilentThresholdSeconds : {0, 5, -1},
     cooldownSeconds : {2}]

\* `value || fallback` on numbers
OrDefault(value, fallback) == IF value = 0 THEN fallback ELSE value

MaxConcurrent == OrDefault(cfg.maxConcurrent, DefaultMaxConcurrent)
TimeoutSeconds == OrDefault(cfg.timeoutSeconds, DefaultTimeoutSeconds)
MaxRetries == OrDefault(cfg.maxRetries, DefaultMaxRetries)
IdleThresholdSeconds == OrDefault(cfg.idleThresholdSeconds, DefaultIdleThresholdSeconds)
UserSilentThresholdSeconds ==
    OrDefault(cfg.userSilentThresholdSeconds, DefaultUserSilentThresholdSeconds)
CooldownSeconds == OrDefault(cfg.cooldownSeconds, DefaultCooldownSeconds)

----------------------------------------------------------------------------
(* Tasks *)

TaskIds == {"a", "b", "p"}

\* The tasks handed to addTask: status 'pending', no lastRunAt.
\* intervalSeconds 0 stands for 0 or absent (both falsy in getPendingTasks).
TaskInputs ==
    { [id |-> "a", priority |-> "high", intervalSeconds |-> 0, dependsOn |-> <<>>],
      [id |-> "b", priority |-> "critical", intervalSeconds |-> 0, dependsOn |-> <<"a">>],
      [id |-> "p", priority |-> "periodic", intervalSeconds |-> 2, dependsOn |-> <<>>] }

\* No Task object (undefined); lastRunAt -1: undefined
NoTask ==
    [id |-> "none", priority |-> "none", status |-> "none", lastRunAt |-> -1,
     intervalSeconds |-> 0, dependsOn |-> <<>>]

\* tasks.has(id), tasks.get(id)
Has(id) == \E i \in 1..Len(tasks) : tasks[i].id = id
Get(id) == IF Has(id) THEN CHOOSE t \in {tasks[i] : i \in 1..Len(tasks)} : t.id = id
           ELSE NoTask

\* Map.set: an existing key keeps its place, a new key goes last
MapSet(m, t) ==
    IF \E i \in 1..Len(m) : m[i].id = t.id
    THEN [i \in 1..Len(m) |-> IF m[i].id = t.id THEN t ELSE m[i]]
    ELSE Append(m, t)

\* Map.delete
MapDelete(m, id) == SelectSeq(m, LAMBDA t : t.id # id)

\* The Task object a call in flight holds
Held(e) == IF e.attached THEN Get(e.id) ELSE e.task

\* The objects under the ids gone leave the map: the calls holding them keep them
Detach(ex, gone) ==
    BagOfAll(LAMBDA e : IF e.attached /\ e.id \in gone
                        THEN [e EXCEPT !.attached = FALSE, !.task = Get(e.id)]
                        ELSE e,
             ex)

----------------------------------------------------------------------------
(* TaskManager.getPendingTasks *)

priorityOrder(p) ==
    CASE p = "critical" -> 0
      [] p = "high" -> 1
      [] p = "medium" -> 2
      [] p = "low" -> 3
      [] p = "periodic" -> 4

\* the test of the dependency's status left out
MutDepsSatisfied(t) ==
    \A i \in 1..Len(t.dependsOn) : Has(t.dependsOn[i])

\* a failed dependency taken for a completed one
MutDepsSettled(t) ==
    \A i \in 1..Len(t.dependsOn) :
        /\ Has(t.dependsOn[i])
        /\ Get(t.dependsOn[i]).status \in {"completed", "failed"}

\* every dependency is in the map and completed
DepsSatisfied(t) ==
    \A i \in 1..Len(t.dependsOn) :
        /\ Has(t.dependsOn[i])
        /\ Get(t.dependsOn[i]).status = "completed"

\* the interval compared with <= for <
MutPeriodicNotDue(t) ==
    /\ t.priority = "periodic"
    /\ t.intervalSeconds # 0
    /\ t.lastRunAt # -1
    /\ now - t.lastRunAt <= t.intervalSeconds

\* a periodic task that ran less than intervalSeconds ago
PeriodicNotDue(t) ==
    /\ t.priority = "periodic"
    /\ t.intervalSeconds # 0
    /\ t.lastRunAt # -1
    /\ now - t.lastRunAt < t.intervalSeconds

\* the filter on the dependencies left out
MutEligible(t) ==
    /\ t.status = "pending"
    /\ ~PeriodicNotDue(t)

Eligible(t) ==
    /\ t.status = "pending"
    /\ DepsSatisfied(t)
    /\ ~PeriodicNotDue(t)

RECURSIVE SortByRank(_, _)
\* the list left as filtered, not sorted
MutSortByRank(s, r) == s

\* Array.prototype.sort is stable: rank by rank, each in the order of s
SortByRank(s, r) ==
    IF r > 4 THEN <<>>
    ELSE SelectSeq(s, LAMBDA t : priorityOrder(t.priority) = r) \o SortByRank(s, r + 1)

\* The eligible tasks of the map, stably sorted by priority rank
getPendingTasks == SortByRank(SelectSeq(tasks, Eligible), 0)

----------------------------------------------------------------------------
(* The value of ret *)

NoRet ==
    [op |-> "none", id |-> "none", kind |-> "none", outcome |-> "none",
     success |-> FALSE, error |-> "none", calls |-> 0, retries |-> 0, start |-> 0,
     via |-> "none", onTrigger |-> FALSE, marked |-> FALSE, notified |-> "none",
     count |-> 0, task |-> NoTask]

----------------------------------------------------------------------------
\* The strategies the constructor registers, and those registerStrategy may add
DefaultStrategies == <<"search-organize-execute", "health-check-parallel", "parallel-tasks">>
CustomStrategies == {"always", "never"}

\* The state after construction, under one of the configurations of C
Constructed(C) ==
    /\ cfg \in C
    /\ now = 0
    /\ tasks = <<>>
    /\ runningTasks = {}
    /\ execs = EmptyBag
    /\ lastTriggerTime = -1
    /\ isRunning = FALSE
    /\ intervalId = 0
    /\ timers = 0
    /\ ops = 0
    /\ strategies = DefaultStrategies
    /\ inserted = <<>>
    /\ ret = NoRet

Init == Constructed(ManagerConfigs)

InitWeaver == Constructed(WeaverConfigs)

----------------------------------------------------------------------------
(* TaskManager.addTask, removeTask, clearCompleted *)

\* addTask(task): a fresh object {...task, status: task.status || 'pending'} is
\* stored under task.id; the object stored there before leaves the map.
AddTask(t) ==
    /\ tasks' = MapSet(tasks, [id |-> t.id, priority |-> t.priority,
                               status |-> "pending", lastRunAt |-> -1,
                               intervalSeconds |-> t.intervalSeconds,
                               dependsOn |-> t.dependsOn])
    /\ execs' = Detach(execs, {t.id})
    /\ ret' = NoRet
    /\ UNCHANGED <<cfg, now, runningTasks, lastTriggerTime, isRunning,
                   intervalId, timers>>

RemoveTask(id) ==
    /\ tasks' = MapDelete(tasks, id)
    /\ execs' = Detach(execs, {id})
    /\ ret' = NoRet
    /\ UNCHANGED <<cfg, now, runningTasks, lastTriggerTime, isRunning,
                   intervalId, timers>>

\* failed tasks cleared as well
MutCleared(t) == t.status \in {"completed", "failed"} /\ t.priority # "periodic"

\* task.status === 'completed' && task.priority !== 'periodic'
Cleared(t) == t.status = "completed" /\ t.priority # "periodic"

ClearCompleted ==
    /\ tasks' = SelectSeq(tasks, LAMBDA t : ~Cleared(t))
    /\ execs' = Detach(execs, {tasks[i].id : i \in {j \in 1..Len(tasks) : Cleared(tasks[j])}})
    /\ ret' = [NoRet EXCEPT !.op = "clearCompleted", !.count = Len(tasks) - Len(tasks')]
    /\ UNCHANGED <<cfg, now, runningTasks, lastTriggerTime, isRunning,
                   intervalId, timers>>

----------------------------------------------------------------------------
(* TaskManager.getRunningCount, getStats *)

getRunningCount == Cardinality(runningTasks)

\* The number of tasks of the store in a status
CountStatus(status) == Cardinality({i \in 1..Len(tasks) : tasks[i].status = status})

getStats ==
    [total |-> Len(tasks), pending |-> CountStatus("pending"),
     running |-> CountStatus("running"), completed |-> CountStatus("completed"),
     failed |-> CountStatus("failed")]

----------------------------------------------------------------------------
(* TaskManager.executeTask and executeNext, up to their first await *)

\* An executeTask call in flight, its action just invoked
NewExec(id, via, first) ==
    [id |-> id, attached |-> TRUE, task |-> NoTask, retries |-> 0, calls |-> 1,
     callStart |-> now, attemptStart |-> now, via |-> via,
     first |-> first]

\* The map m with the status of the object under id set
SetStatus(m, id, status) ==
    [i \in 1..Len(m) |-> IF m[i].id = id THEN [m[i] EXCEPT !.status = status] ELSE m[i]]

\* executeTask(taskId), called directly, by executeNext or by a heartbeat (via);
\* r is the caller's part of ret.  Sets tasks, runningTasks, execs and ret.
executeTask(id, via, first, r) ==
    IF ~Has(id)
    THEN /\ ret' = [r EXCEPT !.kind = "null", !.outcome = "missing", !.id = id]
         /\ UNCHANGED <<tasks, runningTasks, execs>>
    ELSE /\ BagCardinality(execs) < MaxExecs
         /\ tasks' = SetStatus(tasks, id, "running")
         /\ runningTasks' = runningTasks \cup {id}
         /\ execs' = execs (+) SetToBag({NewExec(id, via, first)})
         /\ ret' = [r EXCEPT !.kind = "started", !.id = id, !.start = now, !.via = via]

\* the comparison with > for >=
MutAtCapacity == Cardinality(runningTasks) > MaxConcurrent

\* this.runningTasks.size >= this.config.maxConcurrent
AtCapacity == Cardinality(runningTasks) >= MaxConcurrent

\* executeNext(), called directly or by a heartbeat
executeNext(via, first, r) ==
    IF AtCapacity
    THEN /\ ret' = [r EXCEPT !.kind = "null", !.outcome = "capacity"]
         /\ UNCHANGED <<tasks, runningTasks, execs>>
    ELSE IF getPendingTasks = <<>>
    THEN /\ ret' = [r EXCEPT !.kind = "null", !.outcome = "empty"]
         /\ UNCHANGED <<tasks, runningTasks, execs>>
    ELSE executeTask(getPendingTasks[1].id, via, first, r)

ExecuteTask(id) ==
    /\ executeTask(id, "direct", "none", [NoRet EXCEPT !.op = "executeTask"])
    /\ UNCHANGED <<cfg, now, lastTriggerTime, isRunning, intervalId, timers>>

ExecuteNext ==
    /\ executeNext("next", "none", [NoRet EXCEPT !.op = "executeNext"])
    /\ UNCHANGED <<cfg, now, lastTriggerTime, isRunning, intervalId, timers>>

----------------------------------------------------------------------------
(* TaskManager.executeTask, from the settling of an attempt on *)

\* How an attempt (executeWithTimeout) settles: the action resolves with
\* success true, resolves with success false, rejects, is timed out, or
\* resolves with no result object (reading result.success then throws).
Outcomes == {"success", "reported", "throws", "timeout", "malformed"}

\* a result with success false thrown as an error
MutCaught(outcome) == outcome \in {"reported", "throws", "timeout", "malformed"}

\* The outcomes that end in the catch block
Caught(outcome) == outcome \in {"throws", "timeout", "malformed"}

\* while (retries <= this.config.maxRetries)
RetryAllowed(retries) == retries <= MaxRetries

\* the branches of the conditional swapped
MutStatusAfterResult(success, priority) ==
    IF success
    THEN (IF priority = "periodic" THEN "pending" ELSE "failed")
    ELSE "completed"

\* task.status after an attempt that produced a result
StatusAfterResult(success, priority) ==
    IF success
    THEN (IF priority = "periodic" THEN "pending" ELSE "completed")
    ELSE "failed"

\* the delete after the loop left out
MutRunningAfterExhausted(id) == runningTasks

\* this.runningTasks.delete(taskId) after the loop
RunningAfterExhausted(id) == runningTasks \ {id}

\* this.runningTasks.delete(taskId) before `return result`
RunningAfterResult(id) == runningTasks \ {id}

\* The heartbeat that awaited executeNext() goes on: onTaskComplete is given
\* getTask(pending[0].id) when that task is in the map ("none": no call)
Notified(e) == IF e.via = "heartbeat" /\ Has(e.first) THEN e.first ELSE "none"

\* The held object t written back: into the map when the call is attached
WriteBack(e, t) ==
    IF e.attached
    THEN [i \in 1..Len(tasks) |-> IF tasks[i].id = e.id THEN t ELSE tasks[i]]
    ELSE tasks

SettleRet(e, kind, outcome) ==
    [NoRet EXCEPT !.op = "settle", !.id = e.id, !.kind = kind,
                  !.outcome = outcome, !.calls = e.calls, !.retries = e.retries,
                  !.start = e.callStart, !.via = e.via]

\* the timer of executeWithTimeout firing at once
MutTimedOut(e) == TRUE

\* setTimeout(reject, timeoutSeconds * 1000) of the attempt in progress has fired
TimedOut(e) == now - e.attemptStart >= TimeoutSeconds

Settle(e, outcome) ==
    /\ outcome = "timeout" => TimedOut(e)
    /\ IF ~Caught(outcome)
       THEN \* a result came back: status, lastRunAt, deregister, return result
            LET t == [Held(e) EXCEPT
                         !.status = StatusAfterResult(outcome = "success",
                                                      Held(e).priority),
                         !.lastRunAt = now]
            IN /\ tasks' = WriteBack(e, t)
               /\ execs' = execs (-) SetToBag({e})
               /\ runningTasks' = RunningAfterResult(e.id)
               /\ ret' = [SettleRet(e, "returned", outcome) EXCEPT
                             !.success = (outcome = "success"),
                             !.error = IF outcome = "success" THEN "none" ELSE "reported",
                             !.notified = Notified(e),
                             !.task = t]
       ELSE IF RetryAllowed(e.retries + 1)
       THEN \* caught: retries++, and the loop invokes the action again (lastError
            \* is read only when the loop ends, in the step that set it last)
            /\ execs' = (execs (-) SetToBag({e})) (+)
                        SetToBag({[e EXCEPT !.retries = e.retries + 1,
                                            !.calls = e.calls + 1,
                                            !.attemptStart = now]})
            /\ ret' = [SettleRet(e, "retry", outcome) EXCEPT
                          !.retries = e.retries + 1, !.calls = e.calls + 1]
            /\ UNCHANGED <<tasks, runningTasks>>
       ELSE \* caught, and the loop ends: failed, deregister, return the last error
            LET t == [Held(e) EXCEPT !.status = "failed"]
            IN /\ tasks' = WriteBack(e, t)
               /\ execs' = execs (-) SetToBag({e})
               /\ runningTasks' = RunningAfterExhausted(e.id)
               /\ ret' = [SettleRet(e, "exhausted", outcome) EXCEPT
                             !.retries = e.retries + 1,
                             !.success = FALSE, !.error = outcome,
                             !.notified = Notified(e),
                             !.task = t]
    /\ UNCHANGED <<cfg, now, lastTriggerTime, isRunning, intervalId, timers>>

----------------------------------------------------------------------------
(* IdleDetector *)

\* What getSystemIdleSeconds() returns: the load-based fallback's two values
IdleValues == {0, 3600}

\* the elapsed time compared with <= for <
MutCooldownActive ==
    /\ lastTriggerTime # -1
    /\ now - lastTriggerTime <= CooldownSeconds

\* a trigger was marked less than cooldownSeconds ago
CooldownActive ==
    /\ lastTriggerTime # -1
    /\ now - lastTriggerTime < CooldownSeconds

\* a userSilentSeconds left out read as 0
MutShouldTrigger(state) ==
    /\ ~CooldownActive
    /\ state.systemIdleSeconds >= IdleThresholdSeconds
    /\ ~(state.userSilentSeconds < UserSilentThresholdSeconds)
    /\ ~state.hasActiveTasks

\* shouldTrigger(state); state.userSilentSeconds counts when hasUserSilent
shouldTrigger(state) ==
    /\ ~CooldownActive
    /\ state.systemIdleSeconds >= IdleThresholdSeconds
    /\ ~(state.hasUserSilent /\ state.userSilentSeconds < UserSilentThresholdSeconds)
    /\ ~state.hasActiveTasks

\* The states shouldTrigger may be given
IdleStates ==
    [systemIdleSeconds : IdleValues, hasUserSilent : BOOLEAN,
     userSilentSeconds : {0, DefaultUserSilentThresholdSeconds},
     hasActiveTasks : BOOLEAN]

\* getCurrentState() as the heartbeat calls it, with no arguments, and the
\* heartbeat's overlay of hasActiveTasks
HeartbeatState(idle) ==
    [systemIdleSeconds |-> idle, hasUserSilent |-> TRUE, userSilentSeconds |-> 0,
     hasActiveTasks |-> Cardinality(runningTasks) > 0]

----------------------------------------------------------------------------
(* TaskWeaver *)

\* What a call of the onTrigger callback does
CallbackBehaviours == {"returns", "throws"}

\* the test of isRunning left out
MutStart ==
    /\ isRunning' = TRUE
    /\ intervalId' = 1
    /\ timers' = timers + 1
    /\ ret' = [NoRet EXCEPT !.op = "start", !.kind = "installed"]
    /\ UNCHANGED <<cfg, now, tasks, runningTasks, execs, lastTriggerTime>>

Start ==
    /\ IF isRunning
       THEN /\ ret' = [NoRet EXCEPT !.op = "start", !.kind = "noop"]
            /\ UNCHANGED <<isRunning, intervalId, timers>>
       ELSE /\ isRunning' = TRUE
            /\ intervalId' = 1
            /\ timers' = timers + 1
            /\ ret' = [NoRet EXCEPT !.op = "start", !.kind = "installed"]
    /\ UNCHANGED <<cfg, now, tasks, runningTasks, execs, lastTriggerTime>>

Stop ==
    /\ IF ~isRunning
       THEN /\ ret' = [NoRet EXCEPT !.op = "stop", !.kind = "noop"]
            /\ UNCHANGED <<isRunning, intervalId, timers>>
       ELSE /\ isRunning' = FALSE
            /\ intervalId' = 0
            /\ timers' = IF intervalId # 0 THEN timers - 1 ELSE timers
            /\ ret' = [NoRet EXCEPT !.op = "stop", !.kind = "cleared"]
    /\ UNCHANGED <<cfg, now, tasks, runningTasks, execs, lastTriggerTime>>

\* the test of pending.length left out
MutFires(idle) == shouldTrigger(HeartbeatState(idle))

\* if (shouldTrigger) { ... if (pending.length > 0) {
Fires(idle) == shouldTrigger(HeartbeatState(idle)) /\ getPendingTasks # <<>>

\* pending[0].id, read after the await
FirstPending == IF getPendingTasks = <<>> THEN "none" ELSE getPendingTasks[1].id

\* One tick of the interval timer: heartbeat(), up to its await
Heartbeat(idle, cb) ==
    /\ timers > 0
    /\ IF Fires(idle)
       THEN IF cb = "throws"
            THEN \* onTrigger throws: the heartbeat's promise rejects here
                 /\ ret' = [NoRet EXCEPT !.op = "heartbeat", !.kind = "threw",
                                         !.onTrigger = TRUE]
                 /\ UNCHANGED <<tasks, runningTasks, execs, lastTriggerTime>>
            ELSE /\ lastTriggerTime' = now
                 /\ executeNext("heartbeat", FirstPending,
                                [NoRet EXCEPT !.op = "heartbeat", !.onTrigger = TRUE,
                                              !.marked = TRUE])
       ELSE /\ ret' = [NoRet EXCEPT !.op = "heartbeat", !.kind = "idle"]
            /\ UNCHANGED <<tasks, runningTasks, execs, lastTriggerTime>>
    /\ UNCHANGED <<cfg, now, isRunning, intervalId, timers>>

\* Time passes
Tick ==
    /\ now < MaxTime
    /\ now' = now + 1
    /\ ret' = NoRet
    /\ UNCHANGED <<cfg, tasks, runningTasks, execs, lastTriggerTime, isRunning,
                   intervalId, timers>>

----------------------------------------------------------------------------
(* TaskDecomposer *)

\* A text is a sequence of words; the words the descriptions are made of,
\* and for each word the keywords and separators of the default strategies
\* that occur in it (String.includes, RegExp.test).  Chinese text is written
\* in pinyin: xitong-jiankang-jiancha is the text for system health check,
\* which holds jiankang-jiancha, the word for health check, and with it
\* jiancha, the word for check.
Words == {"search", "xitong-jiankang-jiancha", "health", "and", "report"}

KeywordsIn(word) ==
    CASE word = "search" -> {"search"}
      [] word = "xitong-jiankang-jiancha" -> {"jiankang-jiancha", "jiancha"}
      [] word = "health" -> {"health"}
      [] word = "and" -> {"and"}
      [] OTHER -> {}

Texts == UNION {[1..n -> Words] : n \in 1..MaxWords}

\* The tasks handed to decompose: description <<>> is a description left out
DecomposeInputs ==
    [id : {<<"a">>}, name : {<<"report">>, <<"search">>},
     description : Texts \cup {<<>>}, priority : {"low"}, status : {"pending"},
     hasDependsOn : {FALSE}, dependsOn : {<<>>}]

\* task.description || task.name
DescriptionOf(task) == IF task.description = <<>> THEN task.name ELSE task.description

\* keywords.some(k => desc.toLowerCase().includes(k))
IncludesAny(desc, keywords) ==
    \E i \in 1..Len(desc) : KeywordsIn(desc[i]) \cap keywords # {}

\* strategy.matches(description)
matches(name, desc) ==
    CASE name = "search-organize-execute" ->
           IncludesAny(desc, {"sousuo", "zhengli", "jiancha", "fenxi",
                              "search", "organize", "check", "analyze"})
      [] name = "health-check-parallel" ->
           IncludesAny(desc, {"jiankang-jiancha", "zhuangtai-jiancha", "health", "status check"})
      [] name = "parallel-tasks" ->
           IncludesAny(desc, {"he", "yu", ",", "fullwidth-comma", "and", "+"})
      [] name = "always" -> TRUE
      [] OTHER -> FALSE

\* A generated subtask
Subtask(id, name, description, priority, hasDependsOn, dependsOn) ==
    [id |-> id, name |-> name, description |-> description, priority |-> priority,
     status |-> "pending", hasDependsOn |-> hasDependsOn, dependsOn |-> dependsOn]

RECURSIVE SplitParts(_, _)
\* desc.split(separators).map(trim).filter(nonempty): cur is the part in progress
SplitParts(desc, cur) ==
    IF desc = <<>> THEN (IF cur = <<>> THEN <<>> ELSE <<cur>>)
    ELSE IF KeywordsIn(Head(desc)) \cap {"he", "yu", ",", "fullwidth-comma", "and", "+"} # {}
    THEN (IF cur = <<>> THEN <<>> ELSE <<cur>>) \o SplitParts(Tail(desc), <<>>)
    ELSE SplitParts(Tail(desc), Append(cur, Head(desc)))

IndexName(i) == <<"0", "1", "2", "3">>[i]

\* strategy.decompose(task)
StrategyDecompose(name, task) ==
    LET baseId == task.id
    IN CASE name = "search-organize-execute" ->
              << Subtask(baseId \o <<"search">>, <<"sousuo:">> \o task.name,
                         <<"sousuo xiangguan xinxi:">> \o DescriptionOf(task),
                         task.priority, FALSE, <<>>),
                 Subtask(baseId \o <<"organize">>, <<"zhengli:">> \o task.name,
                         <<"zhengli sousuo jieguo">>, task.priority, TRUE,
                         <<baseId \o <<"search">>>>),
                 Subtask(baseId \o <<"execute">>, <<"zhixing:">> \o task.name,
                         <<"zhixing gaijin">>, task.priority, TRUE,
                         <<baseId \o <<"organize">>>>) >>
         [] name = "health-check-parallel" ->
              << Subtask(baseId \o <<"disk">>, <<"jiancha cipan">>, <<>>, "high", FALSE, <<>>),
                 Subtask(baseId \o <<"memory">>, <<"jiancha neicun">>, <<>>, "high", FALSE, <<>>),
                 Subtask(baseId \o <<"network">>, <<"jiancha wangluo">>, <<>>, "high", FALSE, <<>>),
                 Subtask(baseId \o <<"report">>, <<"shengcheng baogao">>, <<>>, "medium", TRUE,
                         <<baseId \o <<"disk">>, baseId \o <<"memory">>,
                           baseId \o <<"network">>>>) >>
         [] name = "parallel-tasks" ->
              LET parts == SplitParts(DescriptionOf(task), <<>>)
              IN [i \in 1..Len(parts) |->
                    Subtask(baseId \o <<"part", IndexName(i)>>, parts[i], parts[i],
                            task.priority, FALSE, <<>>)]
         [] OTHER ->
              << Subtask(baseId \o <<name>>, task.name, task.description,
                         task.priority, FALSE, <<>>) >>

\* if (!subtask.dependsOn) subtask.dependsOn = []
WithDependsOn(subtasks) ==
    [i \in 1..Len(subtasks) |-> [subtasks[i] EXCEPT !.hasDependsOn = TRUE]]

RECURSIVE decomposeFrom(_, _)
\* The loop of decompose from strategy i on: the tasks returned, the number
\* of strategies whose matches was called, and the strategy applied (0: none)
decomposeFrom(i, task) ==
    IF i > Len(strategies)
    THEN [result |-> <<task>>, consulted |-> Len(strategies), applied |-> 0]
    ELSE IF matches(strategies[i], DescriptionOf(task))
    THEN [result |-> WithDependsOn(StrategyDecompose(strategies[i], task)),
          consulted |-> i, applied |-> i]
    ELSE decomposeFrom(i + 1, task)

\* the loop begun at the second strategy
Mutdecompose(task) == decomposeFrom(2, task)

\* decompose(task)
decompose(task) == decomposeFrom(1, task)

\* the test never finding a strategy
MutcanDecompose(task) == FALSE

\* canDecompose(task): this.strategies.some(s => s.matches(description))
canDecompose(task) ==
    \E i \in 1..Len(strategies) : matches(strategies[i], DescriptionOf(task))

\* registerStrategy(strategy)
RegisterStrategy(name) ==
    /\ Len(strategies) < MaxStrategies
    /\ strategies' = Append(strategies, name)
    /\ ret' = [op |-> "registerStrategy", name |-> name]
    /\ UNCHANGED <<cfg, now, tasks, runningTasks, execs, lastTriggerTime, isRunning,
                   intervalId, timers, ops, inserted>>

\* A call of decompose(task)
Decompose(task) ==
    /\ ret' = [op |-> "decompose", task |-> task,
               result |-> decompose(task).result,
               consulted |-> decompose(task).consulted,
               applied |-> decompose(task).applied]
    /\ UNCHANGED <<cfg, now, tasks, runningTasks, execs, lastTriggerTime, isRunning,
                   intervalId, timers, ops, strategies, inserted>>

----------------------------------------------------------------------------
(* TaskWeaver.addTask *)

\* The configurations of a TaskWeaver as far as addTask goes
\* (enableDecomposition ?? true: the flag given)
AddConfigs ==
    [maxConcurrent : {1}, maxRetries : {1}, timeoutSeconds : {1},
     idleThresholdSeconds : {0}, userSilentThresholdSeconds : {0},
     cooldownSeconds : {2}, enableDecomposition : BOOLEAN]

InitAdd == Constructed(AddConfigs)

\* What TaskManager.addTask stores for a task of the decomposer's kind
StoredTask(t) ==
    [id |-> t.id, priority |-> t.priority, status |-> "pending", lastRunAt |-> -1,
     intervalSeconds |-> 0, dependsOn |-> t.dependsOn]

RECURSIVE AddAll(_, _)
\* for (const subtask of subtasks) this.taskManager.addTask(subtask)
AddAll(m, ts) ==
    IF ts = <<>> THEN m ELSE AddAll(MapSet(m, StoredTask(Head(ts))), Tail(ts))

\* The tasks TaskWeaver.addTask(task) hands to the task manager
Enqueued(task) ==
    IF cfg.enableDecomposition /\ canDecompose(task)
    THEN decompose(task).result
    ELSE <<task>>

WeaverAddTask(task) ==
    /\ tasks' = AddAll(tasks, Enqueued(task))
    /\ execs' = Detach(execs, {Enqueued(task)[i].id : i \in 1..Len(Enqueued(task))})
    /\ ret' = [op |-> "addTask", task |-> task, before |-> tasks]
    /\ UNCHANGED <<cfg, now, runningTasks, lastTriggerTime, isRunning,
                   intervalId, timers>>

----------------------------------------------------------------------------
\* A call of the client, counted
Call(A) == A /\ ops < MaxOps /\ ops' = ops + 1 /\ UNCHANGED <<inserted, strategies>>
\* A step of the event loop: a promise settles, a timer fires, time passes
Loop(A) == A /\ UNCHANGED <<ops, inserted, strategies>>

CallAddTask == \E t \in TaskInputs : Call(AddTask(t))
CallRemoveTask == \E id \in TaskIds : Call(RemoveTask(id))
CallClearCompleted == Call(ClearCompleted)
CallExecuteTask == \E id \in TaskIds : Call(ExecuteTask(id))
CallExecuteNext == Call(ExecuteNext)
CallStart == Call(Start)
CallStop == Call(Stop)
AttemptSettles == \E e \in BagToSet(execs) : \E outcome \in Outcomes : Loop(Settle(e, outcome))
TimerFires == \E idle \in IdleValues : \E cb \in CallbackBehaviours : Loop(Heartbeat(idle, cb))
TimePasses == Loop(Tick)

\* The TaskManager and its client
Next ==
    \/ CallAddTask
    \/ CallRemoveTask
    \/ CallClearCompleted
    \/ CallExecuteTask
    \/ CallExecuteNext
    \/ AttemptSettles
    \/ TimePasses

Spec == Init /\ [][Next]_vars

\* The TaskWeaver, its timer and its client
NextWeaver ==
    \/ CallAddTask
    \/ CallRemoveTask
    \/ CallClearCompleted
    \/ CallExecuteTask
    \/ CallExecuteNext
    \/ CallStart
    \/ CallStop
    \/ TimerFires
    \/ AttemptSettles
    \/ TimePasses

SpecWeaver == InitWeaver /\ [][NextWeaver]_vars

\* The order of the store: tasks that share a priority, and the order in
\* which the ids were first handed to addTask
OrderInputs ==
    { [id |-> "a", priority |-> "high", intervalSeconds |-> 0, dependsOn |-> <<>>],
      [id |-> "b", priority |-> "high", intervalSeconds |-> 0, dependsOn |-> <<>>],
      [id |-> "p", priority |-> "critical", intervalSeconds |-> 0, dependsOn |-> <<>>] }

FirstInserted(id) ==
    IF \E i \in 1..Len(inserted) : inserted[i] = id THEN inserted
    ELSE Append(inserted, id)

\* addTask, not counted: the store never holds more than the three ids
CallAddTaskOrder ==
    \E t \in OrderInputs :
        /\ AddTask(t)
        /\ inserted' = FirstInserted(t.id)
        /\ UNCHANGED <<ops, strategies>>

NextOrder ==
    \/ CallAddTaskOrder
    \/ CallRemoveTask
    \/ CallClearCompleted
    \/ CallExecuteNext
    \/ AttemptSettles

SpecOrder == Init /\ [][NextOrder]_vars

\* A store drained by a client that awaits every executeNext() it calls,
\* every action succeeding.  The stores it starts from: pending tasks,
\* every dependency in the store, no cycle of dependencies.
DrainTasks ==
    [id : {"a"}, priority : {"high"}, status : {"pending"}, lastRunAt : {-1},
     intervalSeconds : {0}, dependsOn : {<<>>, <<"p">>}]
    \cup [id : {"b"}, priority : {"critical"}, status : {"pending"}, lastRunAt : {-1},
          intervalSeconds : {0}, dependsOn : {<<>>, <<"a">>}]
    \cup [id : {"p"}, priority : {"periodic"}, status : {"pending"}, lastRunAt : {-1},
          intervalSeconds : {0, 2}, dependsOn : {<<>>, <<"a">>}]

\* The ids a task of the store s depends on, directly
DirectDeps(s, id) ==
    UNION {{s[i].dependsOn[k] : k \in 1..Len(s[i].dependsOn)} :
             i \in {j \in 1..Len(s) : s[j].id = id}}

RECURSIVE DepsWithin(_, _, _)
\* The ids reached from id along at most n dependencies
DepsWithin(s, id, n) ==
    IF n = 0 THEN {}
    ELSE DirectDeps(s, id)
         \cup UNION {DepsWithin(s, d, n - 1) : d \in DirectDeps(s, id)}

DrainStores ==
    {s \in UNION {[1..n -> DrainTasks] : n \in 1..3} :
        /\ \A i, j \in 1..Len(s) : i # j => s[i].id # s[j].id
        /\ \A i \in 1..Len(s) :
              /\ DirectDeps(s, s[i].id) \subseteq {s[j].id : j \in 1..Len(s)}
              /\ s[i].id \notin DepsWithin(s, s[i].id, Len(s))}

InitDrain ==
    /\ cfg \in ManagerConfigs
    /\ now = 0
    /\ tasks \in DrainStores
    /\ runningTasks = {}
    /\ execs = EmptyBag
    /\ lastTriggerTime = -1
    /\ isRunning = FALSE
    /\ intervalId = 0
    /\ timers = 0
    /\ ops = 0
    /\ strategies = DefaultStrategies
    /\ inserted = <<>>
    /\ ret = NoRet

\* executeNext(), called when the call before it has returned
AwaitedExecuteNext == execs = EmptyBag /\ Loop(ExecuteNext)
ActionSucceeds == \E e \in BagToSet(execs) : Loop(Settle(e, "success"))

NextDrain ==
    \/ AwaitedExecuteNext
    \/ ActionSucceeds
    \/ TimePasses

SpecDrain == InitDrain /\ [][NextDrain]_vars

\* The TaskDecomposer and its client
CallRegisterStrategy == \E name \in CustomStrategies : RegisterStrategy(name)
CallDecompose == \E task \in DecomposeInputs : Decompose(task)

NextDecompose ==
    \/ CallRegisterStrategy
    \/ CallDecompose

SpecDecompose == InitWeaver /\ [][NextDecompose]_vars

\* The TaskWeaver and a client that adds and removes tasks
CallWeaverAddTask == \E task \in DecomposeInputs : Call(WeaverAddTask(task))
CallRemoveStored == \E i \in 1..Len(tasks) : Call(RemoveTask(tasks[i].id))

NextAdd ==
    \/ CallWeaverAddTask
    \/ CallRemoveStored

SpecAdd == InitAdd /\ [][NextAdd]_vars

----------------------------------------------------------------------------
(* Properties *)

\* The executeTask calls in flight on task id
InFlight(id) ==
    LET held == {e \in BagToSet(execs) : e.id = id}
    IN IF held = {} THEN 0
       ELSE IF Cardinality(held) = 1 /\ CopiesIn(CHOOSE e \in held : TRUE, execs) = 1
       THEN 1
       ELSE 2

\* A task one of whose dependencies is missing from the map or not completed
UnmetDependency(t) ==
    \E i \in 1..Len(t.dependsOn) :
        \/ ~(\E j \in 1..Len(tasks) : tasks[j].id = t.dependsOn[i])
        \/ \E j \in 1..Len(tasks) :
              tasks[j].id = t.dependsOn[i] /\ tasks[j].status # "completed"

\* C1: with a positive userSilentThresholdSeconds, a heartbeat that runs
\* while the idle source reports at least idleThresholdSeconds, no trigger
\* fired within cooldownSeconds, no task is running and some task is
\* eligible calls onTrigger, marks the trigger and starts one execution.
C1_HeartbeatFires ==
    [][\A idle \in IdleValues : \A cb \in CallbackBehaviours :
         ( /\ Heartbeat(idle, cb)
           /\ UserSilentThresholdSeconds > 0
           /\ idle >= IdleThresholdSeconds
           /\ ~CooldownActive
           /\ Cardinality(runningTasks) = 0
           /\ getPendingTasks # <<>> )
         => ( /\ ret'.onTrigger
              /\ ret'.marked
              /\ lastTriggerTime' = now
              /\ ret'.kind = "started" )]_vars

\* C2: at most one execution of a given task id is in flight at any time.
C2_OneExecutionPerId == \A id \in TaskIds : InFlight(id) <= 1

\* C3: the size of the running set is at most maxConcurrent.
C3_RunningWithinLimit == Cardinality(runningTasks) <= MaxConcurrent

\* C4: executeNext() called while the running count equals maxConcurrent
\* returns null, starts no execution and changes no task, even when
\* eligible tasks exist.
C4_ExecuteNextAtCapacity ==
    [][(ExecuteNext /\ Cardinality(runningTasks) = MaxConcurrent)
         => (ret'.kind = "null" /\ UNCHANGED <<tasks, execs, runningTasks>>)]_vars

C4_Witness ==
    /\ ret.op = "executeNext"
    /\ ret.kind = "null"
    /\ Cardinality(runningTasks) = MaxConcurrent
    /\ \E i \in 1..Len(tasks) : tasks[i].status = "pending" /\ ~UnmetDependency(tasks[i])

\* C5: the eligible list holds no task with a dependency that is missing
\* from the map or not completed, and neither executeNext nor a heartbeat
\* moves such a task out of pending.
C5_UnmetDependencyNeverEligible ==
    /\ [](\A i \in 1..Len(getPendingTasks) : ~UnmetDependency(getPendingTasks[i]))
    /\ [][(ExecuteNext \/ \E idle \in IdleValues : \E cb \in CallbackBehaviours :
                            Heartbeat(idle, cb))
            => \A i \in 1..Len(tasks) :
                 (tasks[i].status = "pending" /\ UnmetDependency(tasks[i]))
                 => (Len(tasks') = Len(tasks) /\ tasks'[i] = tasks[i])]_vars

\* a heartbeat has just started a task while a task of a better rank waits
\* for a dependency that is not completed
C5_Witness ==
    /\ ret.op = "heartbeat"
    /\ ret.kind = "started"
    /\ \E i \in 1..Len(tasks) :
          /\ tasks[i].status = "pending"
          /\ UnmetDependency(tasks[i])
          /\ \E j \in 1..Len(tasks) :
                /\ tasks[j].id = ret.id
                /\ priorityOrder(tasks[i].priority) < priorityOrder(tasks[j].priority)

\* C6 as claimed: a result with success false is handled like a thrown
\* error, retried while attempts are left, the task marked failed only
\* after 1 + maxRetries attempts.
C6_ReportedFailureRetried ==
    (ret.op = "settle" /\ ret.outcome = "reported")
    => IF ret.calls < 1 + MaxRetries
       THEN ret.kind = "retry"
       ELSE ret.task.status = "failed"

\* C6, amended: a result with success false is not retried.  The attempt
\* that reports it is the call's last: the task is marked failed, its
\* lastRunAt is stamped, its id leaves the running set and the result is
\* returned, whatever is left of the retry budget.
C6_ReportedFailureIsFinal ==
    (ret.op = "settle" /\ ret.outcome = "reported")
    => ( /\ ret.kind = "returned"
         /\ ~ret.success
         /\ ret.task.status = "failed"
         /\ ret.task.lastRunAt = now
         /\ ret.id \notin runningTasks )

C6_Witness ==
    /\ ret.op = "settle"
    /\ ret.outcome = "reported"
    /\ ret.kind = "returned"
    /\ ret.calls < 1 + MaxRetries
    /\ ret.task.status = "failed"

\* C7: for every configured maxRetries >= 0, an action that throws or times
\* out on every attempt is invoked exactly 1 + maxRetries times before the
\* task is marked failed.
C7_AttemptsBeforeFailed ==
    (ret.op = "settle" /\ ret.kind = "exhausted") => ret.calls = 1 + cfg.maxRetries

\* C8: a non-periodic task whose action throws on exactly its first
\* maxRetries attempts and succeeds on the last permitted one ends
\* completed, and executeTask returns the successful result.
C8_SuccessOnLastAttempt ==
    ( /\ ret.op = "settle"
      /\ ret.outcome = "success"
      /\ ret.retries = MaxRetries
      /\ ret.task.priority # "periodic" )
    => ( /\ ret.kind = "returned"
         /\ ret.task.status = "completed"
         /\ ret.success
         /\ ret.error = "none" )

C8_Witness ==
    /\ ret.op = "settle"
    /\ ret.outcome = "success"
    /\ ret.retries = MaxRetries
    /\ ret.calls = 1 + MaxRetries
    /\ ret.task.priority = "high"
    /\ ret.task.status = "completed"

\* C9: after every executeTask call that ran the action, ended by a
\* successful attempt or by exhausted retries, the task's lastRunAt is set
\* to a time not earlier than the start of that call.
C9_LastRunAtStamped ==
    (ret.op = "settle" /\ ret.kind \in {"returned", "exhausted"})
    => (ret.task.lastRunAt # -1 /\ ret.task.lastRunAt >= ret.start)

\* C10: no concurrency slot is leaked: a call that returns has removed its
\* id from the running set, every id of the running set has a call in
\* flight, and with no call in flight getRunningCount() is 0.
C10_NoLeakedSlot ==
    /\ (ret.op = "settle" /\ ret.kind \in {"returned", "exhausted"})
          => ret.id \notin runningTasks
    /\ \A id \in runningTasks : InFlight(id) >= 1
    /\ BagCardinality(execs) = 0 => Cardinality(runningTasks) = 0

\* a call has just ended in exhausted retries, the last attempt malformed
C10_Witness ==
    /\ ret.op = "settle"
    /\ ret.kind = "exhausted"
    /\ ret.outcome = "malformed"
    /\ BagCardinality(execs) = 0
    /\ Cardinality(runningTasks) = 0

\* C11: an attempt is abandoned as timed out only once timeoutSeconds have
\* passed since it began, and from then on the timeout can always be taken;
\* it counts as one failed attempt of the retry budget, and the timeout
\* that ends attempt 1 + maxRetries makes executeTask return success false
\* with the timeout error, the task failed and its id out of the running set.
C11_TimeoutCountsAndEnds ==
    /\ []((ret.op = "settle" /\ ret.outcome = "timeout")
            => IF ret.retries <= MaxRetries
               THEN ret.kind = "retry" /\ ret.calls = ret.retries + 1
               ELSE /\ ret.kind = "exhausted"
                    /\ ret.calls = 1 + MaxRetries
                    /\ ~ret.success
                    /\ ret.error = "timeout"
                    /\ ret.task.status = "failed"
                    /\ ret.id \notin runningTasks)
    /\ [](\A e \in BagToSet(execs) :
             now - e.attemptStart >= TimeoutSeconds => ENABLED Settle(e, "timeout"))
    /\ [][\A e \in BagToSet(execs) :
             Settle(e, "timeout") => now - e.attemptStart >= TimeoutSeconds]_vars

\* a call has just returned after its last permitted attempt timed out, two
\* timeouts after it began
C11_Witness ==
    /\ ret.op = "settle"
    /\ ret.kind = "exhausted"
    /\ ret.outcome = "timeout"
    /\ ret.error = "timeout"
    /\ ret.calls = 1 + MaxRetries
    /\ now - ret.start >= 2 * TimeoutSeconds
    /\ Get(ret.id).status = "failed"
    /\ ret.id \notin runningTasks

\* The eligible list holds the task of this id
Listed(id) == \E i \in 1..Len(getPendingTasks) : getPendingTasks[i].id = id

\* C12: a periodic task whose run succeeds is pending, with lastRunAt
\* stamped, when executeTask returns, and no periodic task is ever
\* completed; a pending periodic task with intervalSeconds that has run is
\* left out of every eligible list computed less than intervalSeconds after
\* its lastRunAt, and is in every list computed at or after lastRunAt +
\* intervalSeconds when its dependencies are satisfied.
C12_PeriodicRearmed ==
    /\ (ret.op = "settle" /\ ret.outcome = "success" /\ ret.task.priority = "periodic")
          => (ret.kind = "returned" /\ ret.task.status = "pending"
              /\ ret.task.lastRunAt = now)
    /\ \A i \in 1..Len(tasks) :
          tasks[i].priority = "periodic" => tasks[i].status # "completed"
    /\ \A i \in 1..Len(tasks) :
          ( /\ tasks[i].priority = "periodic"
            /\ tasks[i].status = "pending"
            /\ tasks[i].intervalSeconds > 0
            /\ tasks[i].lastRunAt # -1 )
          => ( /\ now < tasks[i].lastRunAt + tasks[i].intervalSeconds
                    => ~Listed(tasks[i].id)
               /\ (now >= tasks[i].lastRunAt + tasks[i].intervalSeconds
                     /\ ~UnmetDependency(tasks[i]))
                    => Listed(tasks[i].id) )

\* a periodic task that ran with success is eligible again, its interval over
C12_Witness ==
    \E i \in 1..Len(tasks) :
        /\ tasks[i].priority = "periodic"
        /\ tasks[i].status = "pending"
        /\ tasks[i].intervalSeconds > 0
        /\ tasks[i].lastRunAt # -1
        /\ now = tasks[i].lastRunAt + tasks[i].intervalSeconds
        /\ Listed(tasks[i].id)

\* The place of an id in the store and in the order of first insertion
PlaceInStore(id) == CHOOSE i \in 1..Len(tasks) : tasks[i].id = id
PlaceInserted(id) == CHOOSE i \in 1..Len(inserted) : inserted[i] = id

\* The eligible list is in the order of the priority ranks
RankOrdered ==
    \A i, j \in 1..Len(getPendingTasks) :
        i < j => priorityOrder(getPendingTasks[i].priority)
                   <= priorityOrder(getPendingTasks[j].priority)

\* executeNext, when it starts a task, starts the first of the eligible list
RunsFirstListed ==
    (ExecuteNext /\ ret'.kind = "started") => ret'.id = getPendingTasks[1].id

\* C13 as claimed: the eligible list is ordered by priority rank, two
\* eligible tasks of the same priority appear in the order in which their
\* ids were first inserted into the store, and executeNext runs the first.
C13_TiesByFirstInsertion ==
    /\ [](RankOrdered
           /\ \A i, j \in 1..Len(getPendingTasks) :
                 (i < j /\ getPendingTasks[i].priority = getPendingTasks[j].priority)
                 => PlaceInserted(getPendingTasks[i].id)
                      < PlaceInserted(getPendingTasks[j].id))
    /\ [][RunsFirstListed]_vars

\* C13, amended: the eligible list is ordered by priority rank, and two
\* eligible tasks of the same priority appear in the order in which the
\* store iterates: the order in which their ids were inserted, where an id
\* added again while it is in the store keeps its place and an id that was
\* removed and added again takes its place from the later insertion;
\* executeNext runs the first task of that list.
C13_TiesByStoreOrder ==
    /\ [](RankOrdered
           /\ \A i, j \in 1..Len(getPendingTasks) :
                 (i < j /\ getPendingTasks[i].priority = getPendingTasks[j].priority)
                 => PlaceInStore(getPendingTasks[i].id)
                      < PlaceInStore(getPendingTasks[j].id))
    /\ [][RunsFirstListed]_vars
    /\ [][\A t \in OrderInputs :
             AddTask(t) => IF Has(t.id)
                           THEN PlaceInStore(t.id)' = PlaceInStore(t.id)
                           ELSE PlaceInStore(t.id)' = Len(tasks) + 1]_vars

\* executeNext has just started a task that shares its priority with an
\* eligible task first inserted before it, but removed and added again since
C13_Witness ==
    /\ ret.op = "executeNext"
    /\ ret.kind = "started"
    /\ \E i \in 1..Len(getPendingTasks) :
          /\ getPendingTasks[i].priority = Get(ret.id).priority
          /\ PlaceInStore(ret.id) < PlaceInStore(getPendingTasks[i].id)
          /\ PlaceInserted(getPendingTasks[i].id) < PlaceInserted(ret.id)

\* C14: a heartbeat starts at most one execution, and a heartbeat for which
\* shouldTrigger is false or the eligible list is empty starts none, does
\* not call onTrigger and leaves lastTriggerTime, the tasks and the running
\* set as they are.
C14_HeartbeatStartsAtMostOne ==
    [][\A idle \in IdleValues : \A cb \in CallbackBehaviours :
         Heartbeat(idle, cb)
         => ( /\ BagCardinality(execs') <= BagCardinality(execs) + 1
              /\ (~shouldTrigger(HeartbeatState(idle)) \/ Len(getPendingTasks) = 0)
                   => ( /\ ~ret'.onTrigger
                        /\ ret'.kind # "started"
                        /\ UNCHANGED <<execs, tasks, runningTasks, lastTriggerTime>> ) )]_vars

\* a heartbeat within the cooldown of an earlier trigger has just found an
\* eligible task and left it alone
C14_Witness ==
    /\ ret.op = "heartbeat"
    /\ ret.kind = "idle"
    /\ ~ret.onTrigger
    /\ lastTriggerTime # -1
    /\ getPendingTasks # <<>>

\* The state of a machine idle for an hour, no user silence given, no task active
LongIdle ==
    [systemIdleSeconds |-> 3600, hasUserSilent |-> FALSE, userSilentSeconds |-> 0,
     hasActiveTasks |-> FALSE]

\* C15: as long as no trigger was marked the cooldown prevents nothing;
\* after markTriggered() at time t, shouldTrigger is false for every state
\* at every time before t + cooldownSeconds, and from t + cooldownSeconds
\* on shouldTrigger is true again for a state that meets the other
\* conditions.
C15_Cooldown ==
    /\ lastTriggerTime = -1 => shouldTrigger(LongIdle)
    /\ lastTriggerTime # -1
         => ( /\ lastTriggerTime <= now
              /\ now < lastTriggerTime + CooldownSeconds
                   => \A state \in IdleStates : ~shouldTrigger(state)
              /\ now >= lastTriggerTime + CooldownSeconds
                   => shouldTrigger(LongIdle) )

\* a trigger was marked and its cooldown is just over
C15_Witness ==
    /\ lastTriggerTime # -1
    /\ now = lastTriggerTime + CooldownSeconds
    /\ shouldTrigger(LongIdle)

\* C16: shouldTrigger(state) is true if and only if the cooldown has elapsed
\* or no trigger was ever marked, state.systemIdleSeconds is at least
\* idleThresholdSeconds, state.userSilentSeconds is absent or at least
\* userSilentThresholdSeconds, and state.hasActiveTasks is false.
C16_ShouldTriggerIff ==
    \A state \in IdleStates :
        shouldTrigger(state)
        <=> ( /\ (lastTriggerTime = -1 \/ now - lastTriggerTime >= CooldownSeconds)
              /\ state.systemIdleSeconds >= IdleThresholdSeconds
              /\ (~state.hasUserSilent
                    \/ state.userSilentSeconds >= UserSilentThresholdSeconds)
              /\ state.hasActiveTasks = FALSE )

\* a heartbeat has just stayed idle over an eligible task, armed and with no
\* task running: the same idle state passes without userSilentSeconds and
\* fails with the 0 the heartbeat gives
C16_Witness ==
    /\ ret.op = "heartbeat"
    /\ ret.kind = "idle"
    /\ getPendingTasks # <<>>
    /\ lastTriggerTime = -1
    /\ shouldTrigger([LongIdle EXCEPT !.hasActiveTasks = Cardinality(runningTasks) > 0])
    /\ ~shouldTrigger(HeartbeatState(3600))

\* C17: a heartbeat that has called onTrigger goes on whatever the callback
\* does, a throw included: it marks the trigger and starts the execution of
\* the task it selected; and no task of the store is in status running
\* without an execution in flight.
C17_CallbackFailureIsolated ==
    /\ (ret.op = "heartbeat" /\ ret.onTrigger)
          => (ret.marked /\ lastTriggerTime = now /\ ret.kind = "started")
    /\ \A i \in 1..Len(tasks) :
          tasks[i].status = "running" => InFlight(tasks[i].id) >= 1

\* A non-periodic task that is completed or failed
Terminal(t) == t.priority # "periodic" /\ t.status \in {"completed", "failed"}

\* C18: no executeNext, executeTask(id) or heartbeat, and no attempt that
\* settles, changes a non-periodic task that is completed or failed or
\* starts an execution of it.
C18_TerminalStaysTerminal ==
    [][( \/ ExecuteNext
         \/ \E id \in TaskIds : ExecuteTask(id)
         \/ \E idle \in IdleValues : \E cb \in CallbackBehaviours : Heartbeat(idle, cb)
         \/ \E e \in BagToSet(execs) : \E outcome \in Outcomes : Settle(e, outcome) )
         => \A i \in 1..Len(tasks) :
              Terminal(tasks[i])
              => ( /\ tasks'[i] = tasks[i]
                   /\ ~(ret'.kind = "started" /\ ret'.id = tasks[i].id) )]_vars

\* C19: at most one heartbeat timer is installed at any time, and isRunning
\* is true exactly when one is; start() while running and stop() while
\* stopped change nothing.
C19_OneTimer ==
    /\ [](timers \in {0, 1}
           /\ (isRunning <=> timers = 1)
           /\ (isRunning <=> intervalId # 0))
    /\ [][((Start /\ isRunning) \/ (Stop /\ ~isRunning))
            => UNCHANGED <<cfg, now, tasks, runningTasks, execs, lastTriggerTime,
                           isRunning, intervalId, timers>>]_vars

\* start() has just been called while the heartbeat timer was installed
C19_Witness ==
    /\ ret.op = "start"
    /\ ret.kind = "noop"
    /\ isRunning
    /\ timers = 1

\* The places of the strategies that match the description of a task
Matching(task) ==
    {i \in 1..Len(strategies) : matches(strategies[i], DescriptionOf(task))}

\* C20: decompose(task) applies the first strategy, in registration order,
\* whose matches(description) is true, returns that strategy's subtasks
\* (each with a dependsOn list) and calls matches of no later strategy;
\* when no strategy matches it returns the one-element sequence of the
\* task as it was given.
C20_FirstMatchingStrategy ==
    ret.op = "decompose"
    => IF Matching(ret.task) = {}
       THEN ret.applied = 0 /\ ret.result = <<ret.task>>
       ELSE LET first == CHOOSE i \in Matching(ret.task) :
                            \A j \in Matching(ret.task) : i <= j
                out == StrategyDecompose(strategies[first], ret.task)
            IN /\ ret.applied = first
               /\ ret.consulted = first
               /\ Len(ret.result) = Len(out)
               /\ \A k \in 1..Len(out) :
                     /\ ret.result[k].hasDependsOn
                     /\ ret.result[k] = [out[k] EXCEPT !.hasDependsOn = TRUE]

\* decompose has just applied the first of several strategies that match
C20_Witness ==
    /\ ret.op = "decompose"
    /\ Cardinality(Matching(ret.task)) >= 3
    /\ ret.applied = 1
    /\ ret.consulted = 1
    /\ Len(ret.result) = 3

\* The ids of the tasks of a sequence
Ids(ts) == {ts[i].id : i \in 1..Len(ts)}

\* The subtasks of the first strategy that matches the description of a task
FirstStrategySubtasks(task) ==
    StrategyDecompose(strategies[CHOOSE i \in Matching(task) :
                                    \A j \in Matching(task) : i <= j], task)

\* C21: TaskWeaver.addTask(task) with decomposition enabled and a strategy
\* that matches stores every generated subtask, pending, and does not
\* insert the parent id; with no strategy that matches, or decomposition
\* disabled, it stores the original task under its own id and nothing else.
C21_SubtasksReplaceParent ==
    ret.op = "addTask"
    => IF cfg.enableDecomposition /\ Matching(ret.task) # {}
       THEN /\ Ids(tasks) = Ids(ret.before) \cup Ids(FirstStrategySubtasks(ret.task))
            /\ ret.task.id \in Ids(tasks) => ret.task.id \in Ids(ret.before)
            /\ \A i \in 1..Len(tasks) :
                  tasks[i].id \in Ids(FirstStrategySubtasks(ret.task))
                  => tasks[i].status = "pending"
       ELSE /\ Ids(tasks) = Ids(ret.before) \cup {ret.task.id}
            /\ \E i \in 1..Len(tasks) :
                  /\ tasks[i].id = ret.task.id
                  /\ tasks[i].priority = ret.task.priority
                  /\ tasks[i].status = "pending"

\* addTask has just stored the four subtasks of a health check, and the
\* store does not hold the parent
C21_Witness ==
    /\ ret.op = "addTask"
    /\ cfg.enableDecomposition
    /\ Matching(ret.task) # {}
    /\ Len(FirstStrategySubtasks(ret.task)) = 4
    /\ Ids(FirstStrategySubtasks(ret.task)) \subseteq Ids(tasks)
    /\ ret.task.id \notin Ids(tasks)

\* C22: with the default strategies, decompose() of a task whose description
\* is the text for system health check returns the four health-check
\* subtasks disk, memory, network and report, the report subtask depending
\* on the other three.
C22_HealthCheckSubtasks ==
    ( /\ ret.op = "decompose"
      /\ strategies = DefaultStrategies
      /\ DescriptionOf(ret.task) = <<"xitong-jiankang-jiancha">> )
    => ( /\ Len(ret.result) = 4
         /\ ret.result[1].id = ret.task.id \o <<"disk">>
         /\ ret.result[2].id = ret.task.id \o <<"memory">>
         /\ ret.result[3].id = ret.task.id \o <<"network">>
         /\ ret.result[4].id = ret.task.id \o <<"report">>
         /\ ret.result[4].dependsOn = <<ret.task.id \o <<"disk">>,
                                        ret.task.id \o <<"memory">>,
                                        ret.task.id \o <<"network">>>> )

\* The places of the store that hold a completed task that is not periodic
CompletedPlaces ==
    {i \in 1..Len(tasks) : tasks[i].status = "completed" /\ tasks[i].priority # "periodic"}

\* C23: clearCompleted() removes exactly the completed tasks that are not
\* periodic and returns their number; every other task stays as it is, in
\* the same order, and the running set is unchanged.
C23_ClearCompletedFrame ==
    [][ClearCompleted
         => ( /\ ret'.count = Cardinality(CompletedPlaces)
              /\ Len(tasks') = Len(tasks) - Cardinality(CompletedPlaces)
              /\ \A i \in (1..Len(tasks)) \ CompletedPlaces :
                    tasks'[i - Cardinality({k \in CompletedPlaces : k < i})] = tasks[i]
              /\ UNCHANGED <<runningTasks, cfg, now, lastTriggerTime, isRunning,
                             intervalId, timers>> )]_vars

\* clearCompleted has just removed a task and left another in the store
C23_Witness ==
    /\ ret.op = "clearCompleted"
    /\ ret.count >= 1
    /\ Len(tasks) >= 1
    /\ \A i \in 1..Len(tasks) : tasks[i].status # "completed"

\* C24: when the executeNext call made by a heartbeat produces a result,
\* onTaskComplete is invoked with the task that was executed, whatever
\* happened to the store while the task ran.
C24_NotifiedOfExecutedTask ==
    (ret.op = "settle" /\ ret.via = "heartbeat" /\ ret.kind \in {"returned", "exhausted"})
    => (ret.notified = ret.id /\ Get(ret.notified) = ret.task)

\* A task one of whose dependencies is failed, or not in the store
LostDependency(t) ==
    \E i \in 1..Len(t.dependsOn) :
        \/ \A j \in 1..Len(tasks) : tasks[j].id # t.dependsOn[i]
        \/ \E j \in 1..Len(tasks) :
              tasks[j].id = t.dependsOn[i] /\ tasks[j].status = "failed"

\* C25: a pending task with a dependency that is failed or gone from the
\* store is on no eligible list, and no executeNext and no heartbeat starts
\* it or takes it out of pending.
C25_BlockedByLostDependency ==
    /\ [](\A i \in 1..Len(tasks) :
             (tasks[i].status = "pending" /\ LostDependency(tasks[i]))
             => ~Listed(tasks[i].id))
    /\ [][(ExecuteNext \/ \E idle \in IdleValues : \E cb \in CallbackBehaviours :
                            Heartbeat(idle, cb))
            => \A i \in 1..Len(tasks) :
                 (tasks[i].status = "pending" /\ LostDependency(tasks[i]))
                 => ( /\ tasks'[i].status = "pending"
                      /\ ~(ret'.kind = "started" /\ ret'.id = tasks[i].id) )]_vars

\* executeNext has just found nothing to run although a task is pending:
\* its dependency has failed
C25_Witness ==
    /\ ret.op = "executeNext"
    /\ ret.kind = "null"
    /\ ret.outcome = "empty"
    /\ \E i \in 1..Len(tasks) :
          /\ tasks[i].status = "pending"
          /\ \E k \in 1..Len(tasks[i].dependsOn) :
                Has(tasks[i].dependsOn[k]) /\ Get(tasks[i].dependsOn[k]).status = "failed"

\* C26: a heartbeat starts an execution only when no execution is in
\* flight and the running count is 0: right after it has started one, that
\* execution is the only one in flight.
C26_HeartbeatStartsAlone ==
    (ret.op = "heartbeat" /\ ret.kind = "started")
    => (BagCardinality(execs) = 1 /\ runningTasks = {ret.id})

\* C27: in every reachable state getStats().running, the number of tasks of
\* the store in status running, equals getRunningCount(), the size of the
\* running set.
C27_RunningViewsAgree == getStats.running = getRunningCount

\* A task of the store that depends, directly or through other tasks, on a
\* periodic task
DependsOnPeriodic(t) ==
    \E i \in 1..Len(tasks) :
        /\ tasks[i].priority = "periodic"
        /\ tasks[i].id \in DepsWithin(tasks, t.id, Len(tasks))

\* executeNext starts a task only when all its dependencies are completed
StartedAfterDependencies ==
    (ExecuteNext /\ ret'.kind = "started")
    => \A k \in 1..Len(Get(ret'.id).dependsOn) :
         \E j \in 1..Len(tasks) :
            tasks[j].id = Get(ret'.id).dependsOn[k] /\ tasks[j].status = "completed"

\* C28 as claimed: every action succeeding, every dependency present and
\* the dependencies acyclic, when executeNext() called again and again,
\* each call awaited, returns null, every non-periodic task is completed;
\* and every task was started after all its dependencies had completed.
C28_DrainCompletesAll ==
    /\ []((ret.op = "executeNext" /\ ret.kind = "null")
            => \A i \in 1..Len(tasks) :
                 tasks[i].priority # "periodic" => tasks[i].status = "completed")
    /\ [][StartedAfterDependencies]_vars

\* C28, amended: every action succeeding, every dependency present and the
\* dependencies acyclic, when executeNext() called again and again, each
\* call awaited, returns null, every non-periodic task that does not depend
\* on a periodic task, directly or through other tasks, is completed, and
\* every non-periodic task that does is still pending (a periodic task is
\* never completed); and every task was started after all its dependencies
\* had completed.
C28_DrainCompletesReachable ==
    /\ []((ret.op = "executeNext" /\ ret.kind = "null")
            => \A i \in 1..Len(tasks) :
                 tasks[i].priority # "periodic"
                 => IF DependsOnPeriodic(tasks[i])
                    THEN tasks[i].status = "pending"
                    ELSE tasks[i].status = "completed")
    /\ [][StartedAfterDependencies]_vars

\* executeNext has just returned null on a store of three tasks: the task
\* that depends on another is completed, and the periodic task has run
C28_Witness ==
    /\ ret.op = "executeNext"
    /\ ret.kind = "null"
    /\ Len(tasks) = 3
    /\ \E i \in 1..Len(tasks) :
          /\ tasks[i].priority # "periodic"
          /\ tasks[i].dependsOn # <<>>
          /\ tasks[i].status = "completed"
    /\ \E i \in 1..Len(tasks) :
          tasks[i].priority = "periodic" /\ tasks[i].lastRunAt # -1

====
